---- MODULE Spec2Model ----
(***************************************************************************)
(* cron_dsl: field expressions (src/src/value.rs), schedules and the       *)
(* next-occurrence search (src/src/task.rs).                               *)
(*                                                                         *)
(* A panic of the Rust code (remainder by zero) is an outcome of its own:  *)
(* boolean results are the strings "true" / "false" / "panic", optional    *)
(* results are records [tag |-> "Some" | "None" | "Panic", v |-> value].   *)
(***************************************************************************)
EXTENDS Integers, Sequences, FiniteSets, TLC

(***************************************************************************)
(* Bounds of the model.                                                    *)
(***************************************************************************)
\* The search is followed for at most this many year rollovers (year += 1);
\* the code itself has no such limit.
MaxRollovers == 7

(***************************************************************************)
(* The calendar the code gets from chrono (proleptic Gregorian).           *)
(***************************************************************************)
IsLeap(y) == (y % 4 = 0 /\ y % 100 /= 0) \/ y % 400 = 0

DaysInMonth(y, m) ==
    IF m = 2 THEN (IF IsLeap(y) THEN 29 ELSE 28)
    ELSE IF m \in {4, 6, 9, 11} THEN 30 ELSE 31

\* NaiveDate::from_ymd_opt(y, m, d).is_some(); chrono's years are
\* -262143 .. 262142.
ValidDate(y, m, d) ==
    /\ y >= -262143 /\ y <= 262142
    /\ m >= 1 /\ m <= 12
    /\ d >= 1 /\ d <= DaysInMonth(y, m)

RECURSIVE DaysBeforeMonth(_, _)
DaysBeforeMonth(y, m) ==
    IF m <= 1 THEN 0 ELSE DaysBeforeMonth(y, m - 1) + DaysInMonth(y, m - 1)

\* Days from 0001-01-01 (a Monday) to the date, for y >= 1.
DayNumber(y, m, d) ==
    365 * (y - 1) + ((y - 1) \div 4) - ((y - 1) \div 100) + ((y - 1) \div 400)
        + DaysBeforeMonth(y, m) + (d - 1)

\* date.weekday() as u8: chrono's Weekday is Mon = 0 .. Sun = 6.
WeekdayOf(y, m, d) == DayNumber(y, m, d) % 7

(***************************************************************************)
(* ValueKind and its conversion to u8 (value.rs:9-61).                     *)
(***************************************************************************)
\* chrono::Weekday as u8
WeekdayAsU8 ==
    [Mon |-> 0, Tue |-> 1, Wed |-> 2, Thu |-> 3, Fri |-> 4, Sat |-> 5, Sun |-> 6]

\* chrono::Month as u8: the enum starts at January = 0
MonthAsU8 ==
    [January |-> 0, February |-> 1, March |-> 2, April |-> 3, May |-> 4,
     June |-> 5, July |-> 6, August |-> 7, September |-> 8, October |-> 9,
     November |-> 10, December |-> 11]

Number(n) == [kind |-> "Number", n |-> n]
Day(name) == [kind |-> "Day", name |-> name]
Month(name) == [kind |-> "Month", name |-> name]

\* impl From<&ValueKind> for u8
U8From(vk) ==
    CASE vk.kind = "Day" -> WeekdayAsU8[vk.name]
      [] vk.kind = "Month" -> MonthAsU8[vk.name]
      [] vk.kind = "Number" -> vk.n

(***************************************************************************)
(* CronValue (value.rs:83-90). Range keeps the two ends of the Rust        *)
(* Range<u8>; the code reads both ends as inclusive.                       *)
(***************************************************************************)
All == [kind |-> "All"]
Value(vk) == [kind |-> "Value", v |-> vk]
Range(start, end) == [kind |-> "Range", start |-> start, end |-> end]
List(items) == [kind |-> "List", items |-> items]
Interval(base, step) == [kind |-> "Interval", base |-> base, step |-> step]

\* on(v), every(step), value.rs:283-299
on(v) == Value(Number(v))
every(step) == Interval(All, Number(step))

Bool(b) == IF b THEN "true" ELSE "false"

\* iter().any(f): the first element that is not "false" decides.
RECURSIVE AnyOf(_, _)
AnyOf(rs, i) ==
    IF i > Len(rs) THEN "false"
    ELSE IF rs[i] = "false" THEN AnyOf(rs, i + 1)
    ELSE rs[i]

\* a && b && ...: the first operand that is not "true" decides.
RECURSIVE AllOf(_, _)
AllOf(rs, i) ==
    IF i > Len(rs) THEN "true"
    ELSE IF rs[i] = "true" THEN AllOf(rs, i + 1)
    ELSE rs[i]

\* x % step == 0 on u8: panics when step is 0.
RemIsZero(x, step) == IF step = 0 THEN "panic" ELSE Bool(x % step = 0)

\* matches with the step of a stepped range counted from 0 instead of from
\* the start of the range
RECURSIVE CronValue_matches_FromZero(_, _)
CronValue_matches_FromZero(cv, value) ==
    CASE cv.kind = "Range" -> Bool(cv.start <= value /\ value <= cv.end)
      [] cv.kind = "Value" -> Bool(U8From(cv.v) = value)
      [] cv.kind = "List" ->
            AnyOf([i \in 1..Len(cv.items) |-> CronValue_matches_FromZero(cv.items[i], value)], 1)
      [] cv.kind = "Interval" ->
            LET base == cv.base
                step == U8From(cv.step)
            IN  CASE base.kind = "All" -> RemIsZero(value, step)
                  [] base.kind = "Range" ->
                        IF value < base.start \/ value > base.end THEN "false"
                        ELSE RemIsZero(value, step)
                  [] base.kind = "Value" ->
                        IF value /= U8From(base.v) THEN "false"
                        ELSE RemIsZero(value, step)
                  [] base.kind = "List" ->
                        AnyOf([i \in 1..Len(base.items) |->
                                 CronValue_matches_FromZero(Interval(base.items[i], cv.step), value)], 1)
                  [] OTHER -> "false"
      [] cv.kind = "All" -> "true"

\* CronValue::matches
RECURSIVE CronValue_matches(_, _)
CronValue_matches(cv, value) ==
    CASE cv.kind = "Range" -> Bool(cv.start <= value /\ value <= cv.end)
      [] cv.kind = "Value" -> Bool(U8From(cv.v) = value)
      [] cv.kind = "List" ->
            AnyOf([i \in 1..Len(cv.items) |-> CronValue_matches(cv.items[i], value)], 1)
      [] cv.kind = "Interval" ->
            LET base == cv.base
                step == U8From(cv.step)
            IN  CASE base.kind = "All" -> RemIsZero(value, step)
                  [] base.kind = "Range" ->
                        IF value < base.start \/ value > base.end THEN "false"
                        ELSE RemIsZero(value - base.start, step)
                  [] base.kind = "Value" ->
                        IF value /= U8From(base.v) THEN "false"
                        ELSE RemIsZero(value, step)
                  [] base.kind = "List" ->
                        AnyOf([i \in 1..Len(base.items) |->
                                 CronValue_matches(Interval(base.items[i], cv.step), value)], 1)
                  [] OTHER -> "false"
      [] cv.kind = "All" -> "true"

Some(v) == [tag |-> "Some", v |-> v]
None == [tag |-> "None", v |-> 0]
Panic == [tag |-> "Panic", v |-> 0]

\* CronValue::next_value: for v in current..=max, the first v that matches.
RECURSIVE CronValue_next_value(_, _, _)
CronValue_next_value(cv, current, max) ==
    IF current > max THEN None
    ELSE LET r == CronValue_matches(cv, current)
         IN  IF r = "panic" THEN Panic
             ELSE IF r = "true" THEN Some(current)
             ELSE CronValue_next_value(cv, current + 1, max)

\* the smallest Some of a sequence of optional values; a panic of any item
\* is a panic of the whole (min() consumes the iterator).
RECURSIVE MinOf(_, _, _)
MinOf(rs, i, acc) ==
    IF i > Len(rs) THEN acc
    ELSE IF rs[i].tag = "Panic" THEN Panic
    ELSE IF rs[i].tag = "None" THEN MinOf(rs, i + 1, acc)
    ELSE IF acc.tag = "None" \/ rs[i].v < acc.v THEN MinOf(rs, i + 1, rs[i])
    ELSE MinOf(rs, i + 1, acc)

\* CronValue::min_value
RECURSIVE CronValue_min_value(_)
CronValue_min_value(cv) ==
    CASE cv.kind = "Value" -> Some(U8From(cv.v))
      [] cv.kind = "Range" -> Some(cv.start)
      [] cv.kind = "Interval" ->
            LET b == CronValue_min_value(cv.base)
                step == U8From(cv.step)
            IN  IF b.tag /= "Some" THEN b
                ELSE IF step = 0 THEN Panic
                ELSE Some(b.v - (b.v % step))
      [] cv.kind = "List" ->
            MinOf([i \in 1..Len(cv.items) |-> CronValue_min_value(cv.items[i])], 1, None)
      [] cv.kind = "All" -> Some(0)

\* CronValue::verify: "Ok" or "Err" (CronError::InvalidCronValue)
RECURSIVE CronValue_verify(_, _, _)
CronValue_verify(cv, min, max) ==
    CASE cv.kind = "Range" ->
            IF cv.start < cv.end /\ cv.start >= min /\ cv.end <= max THEN "Ok" ELSE "Err"
      [] cv.kind = "Interval" -> IF U8From(cv.step) < max THEN "Ok" ELSE "Err"
      [] cv.kind = "Value" -> IF U8From(cv.v) < max THEN "Ok" ELSE "Err"
      [] cv.kind = "List" ->
            IF \E i \in 1..Len(cv.items) : CronValue_verify(cv.items[i], min, max) = "Err"
            THEN "Err" ELSE "Ok"
      [] OTHER -> "Ok"


(***************************************************************************)
(* CronTask (task.rs:7-66). The path is an opaque payload and is left out. *)
(***************************************************************************)
Task(minute, hour, month_day, month, week_day) ==
    [minute |-> minute, hour |-> hour, month_day |-> month_day,
     month |-> month, week_day |-> week_day]

\* #[derive(Default)]: every field is CronValue::All
DefaultTask == Task(All, All, All, All, All)

\* CronTask::verify
CronTask_verify(t) ==
    IF /\ CronValue_verify(t.minute, 0, 60) = "Ok"
       /\ CronValue_verify(t.hour, 0, 24) = "Ok"
       /\ CronValue_verify(t.month_day, 0, 31) = "Ok"
       /\ CronValue_verify(t.month, 0, 12) = "Ok"
       /\ CronValue_verify(t.week_day, 0, 6) = "Ok"
    THEN "Ok" ELSE "Err"

\* A DateTime<Local>, by its local calendar fields.
DateTime(y, mo, d, h, mi, s) == [y |-> y, mo |-> mo, d |-> d, h |-> h, mi |-> mi, s |-> s]

\* CronTask::matches with the two day fields OR-combined, as traditional
\* cron does when both are restricted
CronTask_matches_OrDays(t, date) ==
    AllOf(<< AnyOf(<< CronValue_matches(t.week_day, WeekdayOf(date.y, date.mo, date.d)),
                      CronValue_matches(t.month_day, date.d) >>, 1),
             CronValue_matches(t.hour, date.h),
             CronValue_matches(t.month, date.mo),
             CronValue_matches(t.minute, date.mi) >>, 1)

\* CronTask::matches
CronTask_matches(t, date) ==
    AllOf(<< CronValue_matches(t.week_day, WeekdayOf(date.y, date.mo, date.d)),
             CronValue_matches(t.month_day, date.d),
             CronValue_matches(t.hour, date.h),
             CronValue_matches(t.month, date.mo),
             CronValue_matches(t.minute, date.mi) >>, 1)

\* a <= b: the comparison with its strictness dropped
NotAfter(a, b) ==
    \/ <<a.y, a.mo, a.d, a.h, a.mi, a.s>> = <<b.y, b.mo, b.d, b.h, b.mi, b.s>>
    \/ a.y < b.y
    \/ a.y = b.y /\ a.mo < b.mo
    \/ a.y = b.y /\ a.mo = b.mo /\ a.d < b.d
    \/ a.y = b.y /\ a.mo = b.mo /\ a.d = b.d /\ a.h < b.h
    \/ a.y = b.y /\ a.mo = b.mo /\ a.d = b.d /\ a.h = b.h /\ a.mi < b.mi
    \/ a.y = b.y /\ a.mo = b.mo /\ a.d = b.d /\ a.h = b.h /\ a.mi = b.mi /\ a.s < b.s

\* a < b on timestamps of one time zone
Before(a, b) ==
    \/ a.y < b.y
    \/ a.y = b.y /\ a.mo < b.mo
    \/ a.y = b.y /\ a.mo = b.mo /\ a.d < b.d
    \/ a.y = b.y /\ a.mo = b.mo /\ a.d = b.d /\ a.h < b.h
    \/ a.y = b.y /\ a.mo = b.mo /\ a.d = b.d /\ a.h = b.h /\ a.mi < b.mi
    \/ a.y = b.y /\ a.mo = b.mo /\ a.d = b.d /\ a.h = b.h /\ a.mi = b.mi /\ a.s < b.s

\* Local.from_local_datetime(&dt).single().is_some(): in a zone of fixed
\* offset every local time is single; in a zone with European summer time
\* the hour from 02:00 of the last Sunday of March does not exist and that
\* of the last Sunday of October exists twice.
LocalSingle(zone, dt) ==
    \/ zone = "fixed"
    \/ ~ ( /\ dt.mo \in {3, 10}
           /\ dt.h = 2
           /\ dt.d > 24
           /\ WeekdayOf(dt.y, dt.mo, dt.d) = 6 )

\* the limits the search passes to next_value and to the day scan
MaxMonth == 12
LastScanDay == 30
MaxHour == 23
MaxMinute == 59

\* the day scan with the weekday test left out
RECURSIVE DayScan_NoWeekday(_, _, _, _, _)
DayScan_NoWeekday(t, y, m, d, seen) ==
    IF d > LastScanDay THEN [out |-> "NotFound", d |-> 0, examined |-> seen]
    ELSE IF ~ValidDate(y, m, d) THEN [out |-> "Invalid", d |-> d, examined |-> seen \cup {d}]
    ELSE LET r == CronValue_matches(t.month_day, d)
         IN  IF r = "panic" THEN [out |-> "Panic", d |-> d, examined |-> seen \cup {d}]
             ELSE IF r = "true" THEN [out |-> "Found", d |-> d, examined |-> seen \cup {d}]
             ELSE DayScan_NoWeekday(t, y, m, d + 1, seen \cup {d})

\* for d in day..=30 { from_ymd_opt(year, month, d)?.weekday(); ... }
\* (task.rs:96-103): the days tried, and how the scan ends.
RECURSIVE DayScan(_, _, _, _, _)
DayScan(t, y, m, d, seen) ==
    IF d > LastScanDay THEN [out |-> "NotFound", d |-> 0, examined |-> seen]
    ELSE IF ~ValidDate(y, m, d) THEN [out |-> "Invalid", d |-> d, examined |-> seen \cup {d}]
    ELSE LET r == AllOf(<< CronValue_matches(t.month_day, d),
                           CronValue_matches(t.week_day, WeekdayOf(y, m, d)) >>, 1)
         IN  IF r = "panic" THEN [out |-> "Panic", d |-> d, examined |-> seen \cup {d}]
             ELSE IF r = "true" THEN [out |-> "Found", d |-> d, examined |-> seen \cup {d}]
             ELSE DayScan(t, y, m, d + 1, seen \cup {d})

(***************************************************************************)
(* The inputs the model draws from.                                        *)
(***************************************************************************)
Schedules ==
    << DefaultTask,
       Task(every(5), All, All, All, All),
       Task(All, All, All, Interval(Range(1, 12), Number(5)), All),
       Task(All, All, All, Range(1, 12), All),
       Task(on(30), on(14), on(15), on(6), All),
       Task(on(0), on(0), on(13), All, on(4)),
       Task(List(<<on(5), on(15), on(25)>>), Range(9, 17), All, All, Range(0, 4)),
       Task(on(0), on(0), on(1), on(1), All),
       Task(on(30), on(2), All, All, All),
       Task(Interval(List(<<Range(10, 40), on(45)>>), Number(15)), Interval(Range(8, 20), Number(4)),
            Range(10, 20), Value(Month("June")), Value(Day("Fri"))),
       Task(All, All, on(31), on(2), All),
       Task(All, All, on(0), on(4), All),
       Task(All, All, All, Interval(on(50), Number(5)), All),
       Task(All, All, List(<< >>), All, All),
       Task(every(0), All, All, All, All),
       Task(All, All, All, on(12), All),
       Task(All, All, All, All, on(6)),
       Task(All, All, on(31), All, All),
       Task(All, All, All, on(0), All),
       Task(Range(0, 60), All, All, All, All),
       Task(All, All, All, Range(20, 5), All),
       Task(All, All, All, Value(Month("March")), All),
       Task(All, All, All, All, Value(Day("Mon"))) >>

Years == {2023, 2024}
Dates == { <<1, 1>>, <<1, 30>>, <<2, 28>>, <<2, 29>>, <<3, 15>>, <<3, 25>>,
           <<3, 31>>, <<4, 30>>, <<6, 15>>, <<9, 13>>, <<12, 31>> }
Times == { <<0, 0, 0>>, <<12, 2, 0>>, <<12, 2, 30>>, <<14, 30, 0>>, <<23, 59, 0>>, <<23, 59, 30>> }

Timestamps ==
    { DateTime(y, md[1], md[2], t[1], t[2], t[3]) :
        y \in Years, md \in Dates, t \in Times }

ValidTimestamps == { ts \in Timestamps : ValidDate(ts.y, ts.mo, ts.d) }

Zones == {"fixed", "summer"}

(***************************************************************************)
(* State.                                                                  *)
(***************************************************************************)
VARIABLES
    builder,      \* the CronTaskBuilder's five fields
    buildResult,  \* "none", or what build() returned: "Ok" / "Err"
    task,         \* the CronTask in hand
    pc,           \* where the program is
    from,         \* try_next_occurrence's argument
    zone,         \* the Local time zone of the process
    year, month, day, hour, min,   \* the locals of try_next_occurrence
    ret,          \* its result: "pending", "Some", "None", "Panic"
    local,        \* the timestamp of a Some
    scan,         \* the last day scan: where it ran, the days it tried, its end
    mdate,        \* CronTask::matches' argument
    mres,         \* and its result: "none", "true", "false", "panic"
    expr,         \* a CronValue on its own
    ctor,         \* the arguments of from(lo, hi).every(k) when expr was made by it
    vop,          \* the CronValue operation last applied to expr
    varg,         \* its arguments
    vres,         \* its result
    cron,         \* Cron.tasks
    added,        \* history: the tasks handed to add_task, in call order
    qop,          \* the Cron query last made
    qdate,        \* its argument
    qres          \* its result

taskVars == << builder, buildResult, task, pc, from, zone, year, month, day, hour, min,
               ret, local, scan, mdate, mres >>

valueVars == << expr, ctor, vop, varg, vres >>

cronVars == << cron, added, qop, qdate, qres >>

vars == << taskVars, valueVars, cronVars >>

searchVars == << year, month, day, hour, min, ret, local, scan >>

NoDate == DateTime(0, 0, 0, 0, 0, 0)
NoScan == [year |-> 0, month |-> 0, first |-> 0, out |-> "none", d |-> 0, examined |-> {}]

NoCtor == [made |-> FALSE, lo |-> 0, hi |-> 0, k |-> 0]

\* no CronValue in hand, no call made
InitValue ==
    /\ expr = All
    /\ ctor = NoCtor
    /\ vop = "none"
    /\ varg = << >>
    /\ vres = [tag |-> "none", v |-> 0]

\* Cron::new(): no task held
InitCron ==
    /\ cron = << >>
    /\ added = << >>
    /\ qop = "none"
    /\ qdate = NoDate
    /\ qres = [tag |-> "none", hits |-> << >>]

InitTask ==
    /\ builder = DefaultTask
    /\ buildResult = "none"
    /\ task = DefaultTask
    /\ pc = "start"
    /\ from = NoDate
    /\ zone = "fixed"
    /\ year = 0 /\ month = 0 /\ day = 0 /\ hour = 0 /\ min = 0
    /\ ret = "pending"
    /\ local = NoDate
    /\ scan = NoScan
    /\ mdate = NoDate
    /\ mres = "none"

Init == InitTask /\ InitValue /\ InitCron

(***************************************************************************)
(* Construction (task.rs:28-44, 174-208).                                  *)
(***************************************************************************)
\* CronTask::builder().minutes(..).hour(..).month_day(..).month(..).week_day(..)
Configure ==
    /\ pc = "start"
    /\ \E i \in 1..Len(Schedules) : builder' = Schedules[i]
    /\ pc' = "configured"
    /\ UNCHANGED << buildResult, task, from, zone, searchVars, mdate, mres >>
    /\ UNCHANGED << valueVars, cronVars >>

\* CronTaskBuilder::build: the task is handed out only when verify accepts it
Build ==
    /\ pc = "configured"
    /\ buildResult' = CronTask_verify(builder)
    /\ IF CronTask_verify(builder) = "Ok"
       THEN task' = builder /\ pc' = "idle"
       ELSE task' = task /\ pc' = "rejected"
    /\ UNCHANGED << builder, from, zone, searchVars, mdate, mres >>
    /\ UNCHANGED << valueVars, cronVars >>

\* CronTask::new: no verification
New ==
    /\ pc = "start"
    /\ \E i \in 1..Len(Schedules) : task' = Schedules[i]
    /\ pc' = "idle"
    /\ UNCHANGED << builder, buildResult, from, zone, searchVars, mdate, mres >>
    /\ UNCHANGED << valueVars, cronVars >>

\* CronTask::matches(date)
Matches ==
    /\ pc = "idle"
    /\ \E date \in ValidTimestamps :
          /\ mdate' = date
          /\ mres' = CronTask_matches(task, date)
    /\ pc' = "matched"
    /\ UNCHANGED << builder, buildResult, task, from, zone, searchVars >>
    /\ UNCHANGED << valueVars, cronVars >>

(***************************************************************************)
(* CronTask::try_next_occurrence (task.rs:74-147), one action per step of  *)
(* its loop. `continue` and the end of the loop body go back to "month".   *)
(***************************************************************************)
\* task.rs:75-79
Start ==
    /\ pc = "idle"
    /\ \E f \in ValidTimestamps, z \in Zones :
          /\ from' = f
          /\ zone' = z
          /\ year' = f.y /\ month' = f.mo /\ day' = f.d /\ hour' = f.h /\ min' = f.mi
    /\ pc' = "month"
    /\ UNCHANGED << builder, buildResult, task, ret, local, scan, mdate, mres >>
    /\ UNCHANGED << valueVars, cronVars >>

Return(r) == ret' = r /\ pc' = "done"

\* task.rs:82-92
StepMonth ==
    /\ pc = "month"
    /\ LET nv == CronValue_next_value(task.month, month, MaxMonth)
           mv == CronValue_min_value(task.month)
       IN  CASE nv.tag = "Some" ->
                  /\ month' = nv.v
                  /\ pc' = "day"
                  /\ UNCHANGED << year, day, hour, min, ret >>
             [] nv.tag = "Panic" ->
                  /\ Return("Panic")
                  /\ UNCHANGED << year, month, day, hour, min >>
             [] nv.tag = "None" ->
                  /\ year - from.y < MaxRollovers
                  /\ year' = year + 1
                  /\ CASE mv.tag = "Some" ->
                            /\ month' = mv.v
                            /\ day' = 1 /\ hour' = 0 /\ min' = 0
                            /\ pc' = "month"
                            /\ UNCHANGED ret
                       [] mv.tag = "None" ->
                            /\ Return("None")
                            /\ UNCHANGED << month, day, hour, min >>
                       [] mv.tag = "Panic" ->
                            /\ Return("Panic")
                            /\ UNCHANGED << month, day, hour, min >>
    /\ scan' = NoScan
    /\ UNCHANGED << builder, buildResult, task, from, zone, local, mdate, mres >>
    /\ UNCHANGED << valueVars, cronVars >>

\* task.rs:94-115
StepDay ==
    /\ pc = "day"
    /\ LET r == DayScan(task, year, month, day, {})
       IN  /\ scan' = [year |-> year, month |-> month, first |-> day,
                       out |-> r.out, d |-> r.d, examined |-> r.examined]
           /\ CASE r.out = "Found" ->
                     /\ day' = r.d
                     /\ pc' = "hour"
                     /\ UNCHANGED << month, hour, min, ret >>
                [] r.out = "NotFound" ->
                     /\ month' = month + 1
                     /\ day' = 1 /\ hour' = 0 /\ min' = 0
                     /\ pc' = "month"
                     /\ UNCHANGED ret
                [] r.out = "Invalid" ->
                     /\ Return("None")
                     /\ UNCHANGED << month, day, hour, min >>
                [] r.out = "Panic" ->
                     /\ Return("Panic")
                     /\ UNCHANGED << month, day, hour, min >>
    /\ UNCHANGED << builder, buildResult, task, from, zone, year, local, mdate, mres >>
    /\ UNCHANGED << valueVars, cronVars >>

\* task.rs:117-125
StepHour ==
    /\ pc = "hour"
    /\ LET nv == CronValue_next_value(task.hour, hour, MaxHour)
       IN  CASE nv.tag = "Some" ->
                  /\ hour' = nv.v
                  /\ pc' = "minute"
                  /\ UNCHANGED << day, min, ret >>
             [] nv.tag = "None" ->
                  /\ day' = day + 1
                  /\ hour' = 0 /\ min' = 0
                  /\ pc' = "month"
                  /\ UNCHANGED ret
             [] nv.tag = "Panic" ->
                  /\ Return("Panic")
                  /\ UNCHANGED << day, hour, min >>
    /\ scan' = NoScan
    /\ UNCHANGED << builder, buildResult, task, from, zone, year, month, local, mdate, mres >>
    /\ UNCHANGED << valueVars, cronVars >>

\* task.rs:127-134
StepMinute ==
    /\ pc = "minute"
    /\ LET nv == CronValue_next_value(task.minute, min, MaxMinute)
       IN  CASE nv.tag = "Some" ->
                  /\ min' = nv.v
                  /\ pc' = "assemble"
                  /\ UNCHANGED << hour, ret >>
             [] nv.tag = "None" ->
                  /\ hour' = hour + 1
                  /\ min' = 0
                  /\ pc' = "month"
                  /\ UNCHANGED ret
             [] nv.tag = "Panic" ->
                  /\ Return("Panic")
                  /\ UNCHANGED << hour, min >>
    /\ scan' = NoScan
    /\ UNCHANGED << builder, buildResult, task, from, zone, year, month, day, local, mdate, mres >>
    /\ UNCHANGED << valueVars, cronVars >>

\* task.rs:136-145
Assemble ==
    /\ pc = "assemble"
    /\ LET dt == DateTime(year, month, day, hour, min, 0)
       IN  IF ValidDate(year, month, day) /\ hour < 24 /\ min < 60
           THEN IF ~LocalSingle(zone, dt)
                THEN Return("None") /\ UNCHANGED << min, local >>
                ELSE IF Before(from, dt)
                THEN Return("Some") /\ local' = dt /\ UNCHANGED min
                ELSE min' = min + 1 /\ pc' = "month" /\ UNCHANGED << ret, local >>
           ELSE min' = min + 1 /\ pc' = "month" /\ UNCHANGED << ret, local >>
    /\ scan' = NoScan
    /\ UNCHANGED << builder, buildResult, task, from, zone, year, month, day, hour, mdate, mres >>
    /\ UNCHANGED << valueVars, cronVars >>

Next ==
    \/ Configure
    \/ Build
    \/ New
    \/ Matches
    \/ Start
    \/ StepMonth
    \/ StepDay
    \/ StepHour
    \/ StepMinute
    \/ Assemble

Spec == Init /\ [][Next]_vars

(***************************************************************************)
(* CronValue on its own (value.rs:194-345): the constructors and the four  *)
(* methods, called on one expression with arguments of the caller.         *)
(***************************************************************************)
U8 == 0..255

\* the expressions a caller hands over
Exprs ==
    << All,
       on(0), on(5), on(15), on(50), on(255),
       Value(Month("March")), Value(Day("Fri")),
       Range(10, 20), Range(1, 12), Range(0, 60), Range(20, 5), Range(7, 7),
       List(<< >>),
       List(<<on(5), on(15), on(25)>>),
       List(<<Range(10, 12), on(200)>>),
       List(<<on(15), Range(3, 4), List(<<on(2)>>)>>),
       List(<<on(5), Interval(on(7), Number(5))>>),
       every(1), every(5), every(7), every(0), every(60),
       Interval(Range(10, 20), Number(5)),
       Interval(Range(10, 30), Number(1)),
       Interval(Range(1, 12), Number(5)),
       Interval(Range(3, 250), Number(7)),
       Interval(Range(20, 5), Number(5)),
       Interval(Range(10, 20), Number(0)),
       Interval(on(50), Number(5)),
       Interval(on(7), Number(5)),
       Interval(on(7), Number(1)),
       Interval(List(<<Range(10, 40), on(45)>>), Number(15)),
       Interval(List(<<on(6), on(9)>>), Number(3)),
       Interval(List(<< >>), Number(2)),
       Interval(every(2), Number(3)),
       Interval(Interval(Range(20, 5), Number(2)), Number(3)),
       Interval(List(<<every(2), on(4)>>), Number(2)) >>

\* the arguments a caller hands over
Currents == {0, 1, 6, 10, 11, 21, 26, 61}
Maxes == {10, 12, 30, 59}
VerifyBounds == {<<0, 60>>, <<0, 24>>, <<0, 31>>, <<0, 12>>, <<0, 6>>}
FromEnds == {0, 10, 28, 30, 253, 254, 255}
FromSteps == {0, 1, 5}

Res(tag) == [tag |-> tag, v |-> 0]

\* v + 1 on u8: past 255 the debug build panics and the release build wraps
U8Add1(v, wrap) ==
    IF v + 1 \in U8 THEN Some(v + 1)
    ELSE IF wrap THEN Some((v + 1) % 256)
    ELSE Panic

\* from(begin, end): FromState { value: begin..end + 1 }
FromState(begin, end, wrap) ==
    LET e == U8Add1(end, wrap)
    IN  IF e.tag = "Panic" THEN Panic
        ELSE Some([start |-> begin, end |-> e.v])

\* FromState::every: Interval(Range(start..end + 1), value)
FromState_every(fs, value, wrap) ==
    LET e == U8Add1(fs.end, wrap)
    IN  IF e.tag = "Panic" THEN Panic
        ELSE Some(Interval(Range(fs.start, e.v), Number(value)))

\* a value was built and no method has been called on it yet; the methods
\* take &self, so one call per value shows all a value does
InHand == vop \in {"new", "from_every"} /\ vres.tag = "Ok"

\* a CronValue is built from the variants or the plain constructors
NewValue ==
    /\ vop = "none"
    /\ \E i \in 1..Len(Exprs) : expr' = Exprs[i]
    /\ ctor' = NoCtor
    /\ vop' = "new"
    /\ varg' = << >>
    /\ vres' = Res("Ok")
    /\ UNCHANGED << taskVars, cronVars >>

\* from(lo, hi).every(k)
FromEvery ==
    /\ vop = "none"
    /\ \E lo \in FromEnds, hi \in FromEnds, k \in FromSteps, wrap \in BOOLEAN :
          LET fs == FromState(lo, hi, wrap)
              r == IF fs.tag = "Panic" THEN Panic ELSE FromState_every(fs.v, k, wrap)
          IN  /\ expr' = IF r.tag = "Panic" THEN All ELSE r.v
              /\ ctor' = IF r.tag = "Panic" THEN NoCtor
                                            ELSE [made |-> TRUE, lo |-> lo, hi |-> hi, k |-> k]
              /\ vres' = IF r.tag = "Panic" THEN Panic ELSE Res("Ok")
              /\ varg' = <<lo, hi, k>>
    /\ vop' = "from_every"
    /\ UNCHANGED << taskVars, cronVars >>

\* expr.matches(v)
ValueMatches ==
    /\ InHand
    /\ \E v \in U8 :
          /\ varg' = <<v>>
          /\ vres' = Res(CronValue_matches(expr, v))
    /\ vop' = "matches"
    /\ UNCHANGED << expr, ctor, taskVars, cronVars >>

\* expr.next_value(current, max)
NextValue ==
    /\ InHand
    /\ \E current \in Currents, max \in Maxes :
          /\ varg' = <<current, max>>
          /\ vres' = CronValue_next_value(expr, current, max)
    /\ vop' = "next_value"
    /\ UNCHANGED << expr, ctor, taskVars, cronVars >>

\* expr.min_value()
MinValue ==
    /\ InHand
    /\ varg' = << >>
    /\ vres' = CronValue_min_value(expr)
    /\ vop' = "min_value"
    /\ UNCHANGED << expr, ctor, taskVars, cronVars >>

\* expr.verify(min, max)
Verify ==
    /\ InHand
    /\ \E b \in VerifyBounds :
          /\ varg' = b
          /\ vres' = Res(CronValue_verify(expr, b[1], b[2]))
    /\ vop' = "verify"
    /\ UNCHANGED << expr, ctor, taskVars, cronVars >>

NextValueOps ==
    \/ NewValue
    \/ FromEvery
    \/ ValueMatches
    \/ NextValue
    \/ MinValue
    \/ Verify

ValueSpec == Init /\ [][NextValueOps]_vars

(***************************************************************************)
(* Cron (cron.rs:10-35): a Vec of tasks, add_task and the two queries.     *)
(***************************************************************************)
MaxTasks == 3

\* tasks that build() returned Ok for
CronTasks ==
    << DefaultTask,
       Task(on(30), on(14), on(15), on(6), All),
       Task(on(0), on(0), All, All, All),
       Task(every(0), All, All, All, All) >>

CronDates ==
    { DateTime(2023, 1, 1, 0, 0, 0),
      DateTime(2023, 6, 15, 14, 30, 0),
      DateTime(2024, 9, 13, 12, 2, 30) }

QRes(tag, hits) == [tag |-> tag, hits |-> hits]

\* self.into_iter().filter(|task| task.matches(date)).collect(): every task
\* is evaluated, the matching ones are kept (as their places in tasks)
RECURSIVE FilterMatching(_, _, _)
FilterMatching(tasks, date, i) ==
    IF i > Len(tasks) THEN QRes("Ok", << >>)
    ELSE LET r == CronTask_matches(tasks[i], date)
             rest == FilterMatching(tasks, date, i + 1)
         IN  IF r = "panic" \/ rest.tag = "Panic" THEN QRes("Panic", << >>)
             ELSE IF r = "true" THEN QRes("Ok", <<i>> \o rest.hits)
             ELSE rest

\* Cron::add_task
AddTask ==
    /\ Len(cron) < MaxTasks
    /\ \E i \in 1..Len(CronTasks) :
          /\ cron' = Append(cron, CronTasks[i])
          /\ added' = Append(added, CronTasks[i])
    /\ qop' = "add_task"
    /\ qdate' = NoDate
    /\ qres' = QRes("Ok", << >>)
    /\ UNCHANGED << taskVars, valueVars >>

\* Cron::is_planified_at
IsPlanifiedAt ==
    /\ \E date \in CronDates :
          /\ qdate' = date
          /\ qres' = QRes(AnyOf([i \in 1..Len(cron) |-> CronTask_matches(cron[i], date)], 1), << >>)
    /\ qop' = "is_planified_at"
    /\ UNCHANGED << cron, added, taskVars, valueVars >>

\* Cron::get_all_planified_at
GetAllPlanifiedAt ==
    /\ \E date \in CronDates :
          /\ qdate' = date
          /\ qres' = FilterMatching(cron, date, 1)
    /\ qop' = "get_all_planified_at"
    /\ UNCHANGED << cron, added, taskVars, valueVars >>

NextCron ==
    \/ AddTask
    \/ IsPlanifiedAt
    \/ GetAllPlanifiedAt

CronSpec == Init /\ [][NextCron]_vars

(***************************************************************************)
(* What the properties below are stated with.                              *)
(***************************************************************************)
Done == pc = "done"

\* build would hand this task out
Accepted(t) == CronTask_verify(t) = "Ok"

FieldAccepts(cv, v) == CronValue_matches(cv, v) = "true"

\* the timestamp is one the schedule matches
TaskAccepts(t, dt) ==
    /\ FieldAccepts(t.minute, dt.mi)
    /\ FieldAccepts(t.hour, dt.h)
    /\ FieldAccepts(t.month_day, dt.d)
    /\ FieldAccepts(t.month, dt.mo)
    /\ FieldAccepts(t.week_day, WeekdayOf(dt.y, dt.mo, dt.d))

\* a is an earlier instant than b, by the lexicographic order of the fields
RECURSIVE LexLess(_, _, _)
LexLess(a, b, i) ==
    /\ i <= Len(a)
    /\ \/ a[i] < b[i]
       \/ a[i] = b[i] /\ LexLess(a, b, i + 1)

Earlier(a, b) ==
    LexLess(<<a.y, a.mo, a.d, a.h, a.mi, a.s>>, <<b.y, b.mo, b.d, b.h, b.mi, b.s>>, 1)

\* some minute the schedule matches lies strictly between a and b
MatchBetween(t, a, b) ==
    \E y \in a.y..b.y, mo \in 1..12 :
        /\ FieldAccepts(t.month, mo)
        /\ \E d \in 1..DaysInMonth(y, mo) :
              /\ ~Earlier(DateTime(y, mo, d, 23, 59, 59), a)
              /\ ~Earlier(b, DateTime(y, mo, d, 0, 0, 0))
              /\ FieldAccepts(t.month_day, d)
              /\ FieldAccepts(t.week_day, WeekdayOf(y, mo, d))
              /\ \E h \in 0..23 :
                    /\ FieldAccepts(t.hour, h)
                    /\ \E mi \in 0..59 :
                          /\ FieldAccepts(t.minute, mi)
                          /\ Earlier(a, DateTime(y, mo, d, h, mi, 0))
                          /\ Earlier(DateTime(y, mo, d, h, mi, 0), b)

\* C1: a returned occurrence is the earliest matching minute after `from`:
\* no minute the schedule matches lies strictly between `from` and it.
C1_Minimal ==
    (Done /\ ret = "Some" /\ Accepted(task)) => ~MatchBetween(task, from, local)

\* the dates of year y the schedule matches, as 100 * month + day
MatchingDates(t, y) ==
    { 100 * mo + d : mo \in { m \in 1..12 : FieldAccepts(t.month, m) },
                     d \in { x \in 1..31 : FieldAccepts(t.month_day, x) } }
        \cap { k \in 101..1231 :
                 /\ ValidDate(y, k \div 100, k % 100)
                 /\ FieldAccepts(t.week_day, WeekdayOf(y, k \div 100, k % 100)) }

MatchingHours(t) == { h \in 0..23 : FieldAccepts(t.hour, h) }
MatchingMinutes(t) == { mi \in 0..59 : FieldAccepts(t.minute, mi) }

SetMin(S) == CHOOSE x \in S : \A z \in S : x <= z

MatchesInYear(t, y) ==
    MatchingDates(t, y) /= {} /\ MatchingHours(t) /= {} /\ MatchingMinutes(t) /= {}

\* the first minute of year y the schedule matches
FirstInYear(t, y) ==
    LET k == SetMin(MatchingDates(t, y))
    IN  DateTime(y, k \div 100, k % 100, SetMin(MatchingHours(t)), SetMin(MatchingMinutes(t)), 0)

\* C2: a search that rolled over into the year after `from`, for a schedule
\* that matches in that year, returns the first matching minute of that year
\* (all fields Any from 31 December 23:59 gives 1 January 00:00).
C2_YearRollover ==
    (Done /\ Accepted(task) /\ year > from.y /\ MatchesInYear(task, from.y + 1))
        => (ret = "Some" /\ local = FirstInYear(task, from.y + 1))

\* C3: a day scan tries exactly the days from the current day on that the
\* month has, up to the day it accepts; it ends with a day found or, all
\* days of the month tried, with the carry into the next month.
C3_DayStep ==
    (scan.out /= "none" /\ Accepted(task)) =>
        LET last == DaysInMonth(scan.year, scan.month)
        IN  /\ scan.examined \subseteq 1..last
            /\ scan.out \in {"Found", "NotFound"}
            /\ scan.out = "Found" => scan.examined = scan.first..scan.d
            /\ scan.out = "NotFound" =>
                  /\ scan.examined = scan.first..last
                  /\ pc = "month" /\ month = scan.month + 1
                  /\ day = 1 /\ hour = 0 /\ min = 0

\* C4: a returned occurrence is a timestamp CronTask::matches accepts.
C4_RoundTrip ==
    (Done /\ ret = "Some") => CronTask_matches(task, local) = "true"

\* an occurrence was returned for a schedule that restricts both the day of
\* the month and the day of the week
C4_Witness ==
    /\ Done /\ ret = "Some"
    /\ task.month_day.kind /= "All" /\ task.week_day.kind /= "All"

\* C5: a returned occurrence is strictly after `from` and has seconds 0.
C5_StrictlyAfter ==
    (Done /\ ret = "Some") => (Earlier(from, local) /\ local.s = 0)

\* an occurrence was returned for a `from` with seconds whose own minute the
\* schedule matches
C5_Witness ==
    /\ Done /\ ret = "Some"
    /\ from.s > 0
    /\ TaskAccepts(task, [from EXCEPT !.s = 0])

\* C6: the search makes at most 5 year rollovers.
C6_BoundedHorizon ==
    pc \in {"month", "day", "hour", "minute", "assemble", "done"} => year - from.y <= 5

\* C7: no call on a task that build handed out panics.
C7_NoPanic ==
    buildResult = "Ok" => (ret /= "Panic" /\ mres /= "panic")

\* every single value and range end of the expression is in lo .. hi - 1,
\* and every range has start < end
RECURSIVE InDomain(_, _, _)
InDomain(cv, lo, hi) ==
    CASE cv.kind = "All" -> TRUE
      [] cv.kind = "Value" -> lo <= U8From(cv.v) /\ U8From(cv.v) < hi
      [] cv.kind = "Range" ->
            /\ cv.start < cv.end
            /\ lo <= cv.start /\ cv.start < hi
            /\ lo <= cv.end /\ cv.end < hi
      [] cv.kind = "List" -> \A i \in 1..Len(cv.items) : InDomain(cv.items[i], lo, hi)
      [] cv.kind = "Interval" -> InDomain(cv.base, lo, hi)

DomainsOk(t) ==
    /\ InDomain(t.minute, 0, 60)
    /\ InDomain(t.hour, 0, 24)
    /\ InDomain(t.month_day, 1, 32)
    /\ InDomain(t.month, 1, 13)
    /\ InDomain(t.week_day, 0, 7)

\* C8: build returns Ok exactly when every field is within its domain
\* (minute 0..59, hour 0..23, day of month 1..31, month 1..12, weekday 0..6)
\* with every range start < end.
C8_BuildGate ==
    buildResult /= "none" => (buildResult = "Ok" <=> DomainsOk(builder))

\* C9: CronTask::matches is true exactly when each of the five fields
\* accepts its component of the timestamp.
C9_AllFive ==
    pc = "matched" => (mres = "true" <=> TaskAccepts(task, mdate))

\* matches was false for a schedule that restricts both day fields, on a
\* date whose day of the month is accepted and whose weekday is not
C9_Witness ==
    /\ pc = "matched" /\ mres = "false"
    /\ task.month_day.kind /= "All" /\ task.week_day.kind /= "All"
    /\ FieldAccepts(task.month_day, mdate.d)
    /\ ~FieldAccepts(task.week_day, WeekdayOf(mdate.y, mdate.mo, mdate.d))
    /\ FieldAccepts(task.hour, mdate.h) /\ FieldAccepts(task.minute, mdate.mi)
    /\ FieldAccepts(task.month, mdate.mo)

\* C10: month = Stepped(Range(1,12),5), the other fields Any, `from` in
\* March: the occurrence returned is in June of the year of `from`.
C10_MarchToJune ==
    (Done /\ task = Task(All, All, All, Interval(Range(1, 12), Number(5)), All) /\ from.mo = 3)
        => (ret = "Some" /\ local.mo = 6 /\ local.y = from.y)

(***************************************************************************)
(* The structural reading of an expression, written without the code.     *)
(***************************************************************************)
\* every step is at least 1 and no stepped expression has a stepped base
RECURSIVE Covered(_)
Covered(e) ==
    CASE e.kind = "List" -> \A i \in 1..Len(e.items) : Covered(e.items[i])
      [] e.kind = "Interval" ->
            /\ U8From(e.step) >= 1
            /\ e.base.kind /= "Interval"
            /\ e.base.kind = "List" =>
                  \A i \in 1..Len(e.base.items) : Covered(Interval(e.base.items[i], e.step))
      [] OTHER -> TRUE

RECURSIVE RefMatches(_, _)
RefMatches(e, v) ==
    CASE e.kind = "All" -> TRUE
      [] e.kind = "Value" -> v = U8From(e.v)
      [] e.kind = "Range" -> e.start <= v /\ v <= e.end
      [] e.kind = "List" -> \E i \in 1..Len(e.items) : RefMatches(e.items[i], v)
      [] e.kind = "Interval" ->
            LET k == U8From(e.step)
                b == e.base
            IN  CASE b.kind = "All" -> v % k = 0
                  [] b.kind = "Range" -> b.start <= v /\ v <= b.end /\ (v - b.start) % k = 0
                  [] b.kind = "Value" -> v = U8From(b.v) /\ v % k = 0
                  [] b.kind = "List" ->
                        \E i \in 1..Len(b.items) : RefMatches(Interval(b.items[i], e.step), v)
                  [] OTHER -> FALSE

\* C11: for every expression whose steps are at least 1 and every v in
\* 0..255, matches(v) is what the structural reading of the expression says:
\* All always, Value(x) at x, Range(lo,hi) on lo..hi, a List where some item
\* matches, a stepped All at the multiples of k, a stepped Range on lo..hi at
\* lo + n*k, a stepped Value(x) at x when k divides x, a stepped List where
\* some item stepped by k matches.
C11_MatchesReference ==
    (vop = "matches" /\ Covered(expr)) => vres.tag = Bool(RefMatches(expr, varg[1]))

\* a stepped range was asked about a value off the multiples of its step
\* and recognised it
C11_Witness ==
    /\ vop = "matches"
    /\ expr = Interval(Range(1, 12), Number(5))
    /\ varg = <<11>>
    /\ vres.tag = "true"

\* C12: next_value(current, max) returns Some(v) with v the smallest value
\* of current..max that matches, and None exactly when no value of
\* current..max matches (current > max included).
C12_NextValueSmallest ==
    vop = "next_value" =>
        LET current == varg[1]
            max == varg[2]
        IN  \/ /\ vres.tag = "Some"
               /\ current <= vres.v /\ vres.v <= max
               /\ CronValue_matches(expr, vres.v) = "true"
               /\ \A u \in current..(vres.v - 1) : CronValue_matches(expr, u) /= "true"
            \/ /\ vres.tag = "None"
               /\ \A u \in current..max : CronValue_matches(expr, u) /= "true"

\* C13: min_value() is the smallest value the expression matches: Some(m)
\* means m matches and nothing below m does, and None is returned exactly
\* when the expression matches no value.
C13_MinValueSmallest ==
    vop = "min_value" =>
        \/ /\ vres.tag = "Some"
           /\ CronValue_matches(expr, vres.v) = "true"
           /\ \A u \in 0..(vres.v - 1) : CronValue_matches(expr, u) /= "true"
        \/ /\ vres.tag = "None"
           /\ \A u \in U8 : CronValue_matches(expr, u) /= "true"

\* C14: verify(min, max) of Interval(base, step) is Err whenever base fails
\* verify(min, max) itself, and whenever base is an Interval.
C14_VerifyRecurses ==
    (/\ vop = "verify"
     /\ expr.kind = "Interval"
     /\ \/ expr.base.kind = "Interval"
        \/ CronValue_verify(expr.base, varg[1], varg[2]) = "Err")
    => vres.tag = "Err"

\* C15: for lo <= hi and k >= 1, from(lo, hi).every(k) matches v exactly
\* when lo <= v <= hi and (v - lo) % k = 0; nothing above hi is matched.
C15_FromEveryInclusive ==
    (vop = "matches" /\ ctor.made /\ ctor.lo <= ctor.hi /\ ctor.k >= 1) =>
        LET v == varg[1]
        IN  vres.tag = "true" <=>
                (ctor.lo <= v /\ v <= ctor.hi /\ (v - ctor.lo) % ctor.k = 0)

\* the calendar's own numbering of the month names and the names of the
\* weekday ordinals
CalendarMonth ==
    [January |-> 1, February |-> 2, March |-> 3, April |-> 4, May |-> 5,
     June |-> 6, July |-> 7, August |-> 8, September |-> 9, October |-> 10,
     November |-> 11, December |-> 12]

WeekdayNames == <<"Mon", "Tue", "Wed", "Thu", "Fri", "Sat", "Sun">>

OnlyMonthNamed(t) ==
    /\ t.minute = All /\ t.hour = All /\ t.month_day = All /\ t.week_day = All
    /\ t.month.kind = "Value"
    /\ t.month.v.kind = "Month"

OnlyWeekdayNamed(t) ==
    /\ t.minute = All /\ t.hour = All /\ t.month_day = All /\ t.month = All
    /\ t.week_day.kind = "Value"
    /\ t.week_day.v.kind = "Day"

\* C16: a task whose month field is a month name matches exactly the
\* timestamps of that calendar month, and a task whose day-of-week field is
\* a weekday name matches exactly the timestamps falling on that weekday.
C16_NamedValues ==
    pc = "matched" =>
        /\ OnlyMonthNamed(task) =>
              (mres = "true" <=> mdate.mo = CalendarMonth[task.month.v.name])
        /\ OnlyWeekdayNamed(task) =>
              (mres = "true" <=>
                  WeekdayNames[WeekdayOf(mdate.y, mdate.mo, mdate.d) + 1] = task.week_day.v.name)

\* the places of the held tasks that match date
MatchingPlaces(date) == { i \in 1..Len(cron) : CronTask_matches(cron[i], date) = "true" }

\* C17: the registry holds exactly the added tasks in the order of the
\* add_task calls; is_planified_at(date) is true exactly when some held
\* task matches date; get_all_planified_at(date) returns exactly the held
\* tasks that match date, in insertion order.
C17_Registry ==
    /\ cron = added
    /\ qop = "is_planified_at" => qres.tag = Bool(MatchingPlaces(qdate) /= {})
    /\ qop = "get_all_planified_at" =>
          /\ qres.tag = "Ok"
          /\ \A j \in 1..(Len(qres.hits) - 1) : qres.hits[j] < qres.hits[j + 1]
          /\ { qres.hits[j] : j \in 1..Len(qres.hits) } = MatchingPlaces(qdate)

\* try_next_occurrence is in its loop
Searching == pc \in {"month", "day", "hour", "minute", "assemble"}

\* C18: for a task that build handed out, at every point of the loop of
\* try_next_occurrence the working counters stay within month <= 13,
\* 1 <= day <= 31, hour <= 24 and minute <= 60.
C18_CounterBounds ==
    (buildResult = "Ok" /\ Searching) =>
        /\ month <= 13
        /\ 1 <= day /\ day <= 31
        /\ hour <= 24
        /\ min <= 60

====
